---- MODULE Spec2Model ----
(***************************************************************************)
(* A model of weather-script.py: main() runs fetch_weather_xml,            *)
(* parse_weather, render_svg and the final write_text in sequence.         *)
(*                                                                         *)
(* Texts are sequences of one-character strings, so that split, rstrip,    *)
(* lower, fullmatch, strptime, str and replace are computed on characters  *)
(* as the Python code computes them.                                       *)
(*                                                                         *)
(* The DOM that the XML parser hands to parse_weather is the input of the  *)
(* model: the three element lists the code reads with                      *)
(* getElementsByTagName, each node reduced to what the code looks at       *)
(* (the type attribute, the value children, firstChild and its nodeValue). *)
(* The parser itself (lines 52-53) either raises or yields such a DOM:      *)
(* it raises on bytes that are not well-formed XML, and line 52 raises      *)
(* wherever xml.dom.expatbuilder has no attribute DefusedExpatBuilderNS     *)
(* (the standard library defines ExpatBuilderNS only), in which case every  *)
(* feed is Unparsable.                                                      *)
(***************************************************************************)
EXTENDS Integers, Sequences, FiniteSets, TLC

VARIABLES
    pc,          \* position of main(): start, fetched, parsed, rendered, written, failed
    weather_xml, \* what fetch_weather_xml returned (NoDoc before)
    parsed,      \* what parse_weather returned or raised (NoParse before)
    template,    \* content of INPUT_TEMPLATE
    order,       \* the order in which the 14 replacements are applied
    output,      \* the text render_svg returned
    output_svg,  \* content of OUTPUT_SVG
    calls        \* the stages main() has started so far, in order

vars == <<pc, weather_xml, parsed, template, order, output, output_svg, calls>>

----------------------------------------------------------------------------
(* Bounds of the model *)

MaxTemps == 2     \* temperature elements in a generated feed
MaxValues == 5    \* value children of one temperature element
MaxIcons == 5     \* icon-link elements in a generated feed
MaxPieces == 3    \* fragments a generated template is made of

(* Program constants *)

NUM_DAYS == 4
MINYEAR == 1
MAXYEAR == 9999

----------------------------------------------------------------------------
(* Characters and texts *)

UpperSeq == <<"A","B","C","D","E","F","G","H","I","J","K","L","M",
              "N","O","P","Q","R","S","T","U","V","W","X","Y","Z">>
LowerSeq == <<"a","b","c","d","e","f","g","h","i","j","k","l","m",
              "n","o","p","q","r","s","t","u","v","w","x","y","z">>
DigitSeq == <<"0","1","2","3","4","5","6","7","8","9">>

Range(s) == {s[i] : i \in DOMAIN s}

Digits == Range(DigitSeq)
LowerLetters == Range(LowerSeq)

IsDigit(c) == c \in Digits

DigitValue(c) == (CHOOSE i \in DOMAIN DigitSeq : DigitSeq[i] = c) - 1

\* str.lower() on one (ASCII) character
LowerChar(c) ==
    IF \E i \in DOMAIN UpperSeq : UpperSeq[i] = c
    THEN LowerSeq[CHOOSE i \in DOMAIN UpperSeq : UpperSeq[i] = c]
    ELSE c

\* str.lower()
Lower(s) == [i \in DOMAIN s |-> LowerChar(s[i])]

\* positions of character c in s
Positions(s, c) == {i \in DOMAIN s : s[i] = c}

Max(S) == CHOOSE x \in S : \A y \in S : y <= x
Min(S) == CHOOSE x \in S : \A y \in S : x <= y

\* s.split(c)[-1]: the text after the last c (all of s when there is none)
SplitLast(s, c) ==
    IF Positions(s, c) = {} THEN s
    ELSE SubSeq(s, Max(Positions(s, c)) + 1, Len(s))

\* s.split(c)[0]: the text before the first c (all of s when there is none)
SplitFirstMutant(s, c) ==
    IF Positions(s, c) = {} THEN s
    ELSE SubSeq(s, 1, Max(Positions(s, c)) - 1)

SplitFirst(s, c) ==
    IF Positions(s, c) = {} THEN s
    ELSE SubSeq(s, 1, Min(Positions(s, c)) - 1)

\* s.rstrip("0123456789")
RStripDigits(s) ==
    LET keep == {i \in DOMAIN s : ~IsDigit(s[i])}
    IN  IF keep = {} THEN <<>> ELSE SubSeq(s, 1, Max(keep))

\* ICON_TOKEN_RE = ^[a-z0-9_-]+$
TokenChar(c) == c \in LowerLetters \cup Digits \cup {"_", "-"}

\* ICON_TOKEN_RE.fullmatch(s)
FullMatchMutant(s) == Len(s) >= 1

ICON_TOKEN_RE(s) == Len(s) >= 1 /\ \A i \in DOMAIN s : TokenChar(s[i])

----------------------------------------------------------------------------
(* DOM nodes as parse_weather sees them *)

\* firstChild of an element: None, a text node, or a node whose nodeValue is
\* None (a child element)
NoChild == [kind |-> "none", nodeValue |-> <<>>]
TextChild(s) == [kind |-> "text", nodeValue |-> s]
ElementChild == [kind |-> "element", nodeValue |-> <<>>]

\* a temperature element: its type attribute and the firstChild of each of
\* its value elements, in document order
Temperature(t, vs) == [type |-> t, values |-> vs]

\* what the parser made of the bytes: it raised, or a document
Unparsable == [kind |-> "unparsable", temperature |-> <<>>,
               icon_link |-> <<>>, start_valid_time |-> <<>>]
Document(ts, is, ss) == [kind |-> "document", temperature |-> ts,
                         icon_link |-> is, start_valid_time |-> ss]
NoDoc == [kind |-> "nodoc", temperature |-> <<>>,
          icon_link |-> <<>>, start_valid_time |-> <<>>]

----------------------------------------------------------------------------
(* int(nodeValue) *)

\* str.strip() of blanks, as int() does before reading the number
StripBlanks(s) ==
    LET keep == {i \in DOMAIN s : s[i] # " "}
    IN  IF keep = {} THEN <<>> ELSE SubSeq(s, Min(keep), Max(keep))

Unsigned(s) == IF s # <<>> /\ Head(s) \in {"+", "-"} THEN Tail(s) ELSE s

\* whether int(s) returns: blanks, an optional sign, digits with single
\* underscores between them
IsIntText(s) ==
    LET b == Unsigned(StripBlanks(s))
    IN  /\ Len(b) >= 1
        /\ IsDigit(b[1]) /\ IsDigit(b[Len(b)])
        /\ \A i \in DOMAIN b : IsDigit(b[i]) \/ b[i] = "_"
        /\ \A i \in 1..(Len(b) - 1) : ~(b[i] = "_" /\ b[i + 1] = "_")

RECURSIVE DigitsValue(_)
DigitsValue(b) ==
    IF b = <<>> THEN 0
    ELSE IF b[Len(b)] = "_" THEN DigitsValue(SubSeq(b, 1, Len(b) - 1))
    ELSE 10 * DigitsValue(SubSeq(b, 1, Len(b) - 1)) + DigitValue(b[Len(b)])

\* int(s), where it returns
IntOf(s) ==
    LET t == StripBlanks(s)
    IN  IF Head(t) = "-" THEN 0 - DigitsValue(Unsigned(t)) ELSE DigitsValue(Unsigned(t))

\* int(child.nodeValue) raises: ValueError on other text, TypeError on None
IntRaises(child) == child.kind = "element" \/ ~IsIntText(child.nodeValue)

----------------------------------------------------------------------------
(* parse_weather, lines 55-67: highs and lows *)

\* a slot of highs/lows: None, or an int
None == <<>>
Some(v) == <<v>>

NoSlots == [i \in 1..NUM_DAYS |-> None]      \* [None] * NUM_DAYS

\* for i in range(min(NUM_DAYS, len(values))), from index i on (1-based):
\* the slots when the loop ends, or when int() raises
RECURSIVE FillFromMutant(_, _, _)
FillFromMutant(slots, values, i) ==
    IF i > Min({NUM_DAYS, Len(values)}) THEN [raised |-> FALSE, slots |-> slots]
    ELSE IF values[i].kind = "none"
         THEN FillFromMutant([slots EXCEPT ![i] = None], values, i + 1)
    ELSE IF IntRaises(values[i]) THEN [raised |-> TRUE, slots |-> slots]
    ELSE FillFromMutant([slots EXCEPT ![i] = Some(IntOf(values[i].nodeValue))], values, i + 1)

RECURSIVE FillFrom(_, _, _)
FillFrom(slots, values, i) ==
    IF i > Min({NUM_DAYS, Len(values)}) THEN [raised |-> FALSE, slots |-> slots]
    ELSE IF values[i].kind = "none" THEN FillFrom(slots, values, i + 1)
    ELSE IF IntRaises(values[i]) THEN [raised |-> TRUE, slots |-> slots]
    ELSE FillFrom([slots EXCEPT ![i] = Some(IntOf(values[i].nodeValue))], values, i + 1)

\* the loop over dom.getElementsByTagName("temperature"), from item k on
RECURSIVE FillTemperatures(_, _, _, _)
FillTemperatures(items, k, highs, lows) ==
    IF k > Len(items) THEN [raised |-> FALSE, highs |-> highs, lows |-> lows]
    ELSE LET item == items[k]
             h == IF item.type = "maximum" THEN FillFrom(highs, item.values, 1)
                  ELSE [raised |-> FALSE, slots |-> highs]
             l == IF item.type = "minimum" THEN FillFrom(lows, item.values, 1)
                  ELSE [raised |-> FALSE, slots |-> lows]
         IN  IF h.raised \/ l.raised
             THEN [raised |-> TRUE, highs |-> h.slots, lows |-> l.slots]
             ELSE FillTemperatures(items, k + 1, h.slots, l.slots)

----------------------------------------------------------------------------
(* parse_weather, lines 69-78: icons *)

NA == <<"n", "a">>

\* .split("/")[-1].split(".")[0].rstrip("0123456789"), then .lower()
Normalized(text) == Lower(RStripDigits(SplitFirst(SplitLast(text, "/"), ".")))

\* the token of day i (1-based) where the loop body does not raise
IconTokenMutant(xml_icons, i) ==
    IF i <= Len(xml_icons) /\ xml_icons[i].kind # "none"
    THEN Normalized(xml_icons[i].nodeValue)
    ELSE NA

IconToken(xml_icons, i) ==
    IF i <= Len(xml_icons) /\ xml_icons[i].kind # "none"
    THEN IF ICON_TOKEN_RE(Normalized(xml_icons[i].nodeValue))
         THEN Normalized(xml_icons[i].nodeValue)
         ELSE NA
    ELSE NA

\* None.split raises AttributeError when firstChild has no nodeValue
IconsRaise(xml_icons) ==
    \E i \in 1..NUM_DAYS : i <= Len(xml_icons) /\ xml_icons[i].kind = "element"

Icons(xml_icons) == [i \in 1..NUM_DAYS |-> IconToken(xml_icons, i)]

----------------------------------------------------------------------------
(* parse_weather, lines 80-85: day_one *)

NoDate == [year |-> 0, month |-> 0, day |-> 0]

IsLeap(y) == y % 4 = 0 /\ (y % 100 # 0 \/ y % 400 = 0)

DaysInMonth(y, m) ==
    IF m = 2 THEN (IF IsLeap(y) THEN 29 ELSE 28)
    ELSE IF m \in {4, 6, 9, 11} THEN 30 ELSE 31

\* nodeValue[0:10]
FirstTenMutant(s) == s

FirstTen(s) == SubSeq(s, 1, Min({10, Len(s)}))

At(s, i) == IF i \in DOMAIN s THEN s[i] ELSE ""

\* length of the match of %m = 1[0-2]|0[1-9]|[1-9] at position p that the "-"
\* of the format can follow; 0 when there is none
MonthLen(s, p) ==
    LET a == At(s, p)
        b == At(s, p + 1)
        two == \/ (a = "1" /\ b \in {"0", "1", "2"})
               \/ (a = "0" /\ b \in Digits \ {"0"})
    IN  IF two /\ At(s, p + 2) = "-" THEN 2
        ELSE IF a \in Digits \ {"0"} /\ b = "-" THEN 1
        ELSE 0

\* length of the match of %d = 3[0-1]|[1-2]\d|0[1-9]|[1-9]| [1-9] at p
DayLen(s, p) ==
    LET a == At(s, p)
        b == At(s, p + 1)
    IN  IF a = "3" /\ b \in {"0", "1"} THEN 2
        ELSE IF a \in {"1", "2"} /\ b \in Digits THEN 2
        ELSE IF a = "0" /\ b \in Digits \ {"0"} THEN 2
        ELSE IF a \in Digits \ {"0"} THEN 1
        ELSE IF a = " " /\ b \in Digits \ {"0"} THEN 2
        ELSE 0

\* datetime.datetime.strptime(s, "%Y-%m-%d"): the date, or NoDate where it
\* raises ValueError (no match, unconverted data, year 0, day out of range)
Strptime(s) ==
    IF ~(Len(s) >= 5 /\ (\A i \in 1..4 : IsDigit(s[i])) /\ s[5] = "-") THEN NoDate
    ELSE LET ml == MonthLen(s, 6)
             dp == 6 + ml + 1
             dl == DayLen(s, dp)
         IN  IF ml = 0 \/ dl = 0 \/ dp + dl - 1 # Len(s) THEN NoDate
             ELSE LET y == DigitsValue(SubSeq(s, 1, 4))
                      m == DigitsValue(SubSeq(s, 6, 5 + ml))
                      d == IntOf(SubSeq(s, dp, dp + dl - 1))
                  IN  IF y < MINYEAR \/ d > DaysInMonth(y, m) THEN NoDate
                      ELSE [year |-> y, month |-> m, day |-> d]

----------------------------------------------------------------------------
(* parse_weather as a whole *)

Raise(e, highs, lows, icons, day_one) ==
    [status |-> "raised", error |-> e, highs |-> highs, lows |-> lows,
     icons |-> icons, day_one |-> day_one]

Return(highs, lows, icons, day_one) ==
    [status |-> "returned", error |-> "", highs |-> highs, lows |-> lows,
     icons |-> icons, day_one |-> day_one]

NoParse == [status |-> "none", error |-> "", highs |-> <<>>, lows |-> <<>>,
            icons |-> <<>>, day_one |-> NoDate]

\* any(v is None for v in highs) or any(v is None for v in lows)
IncompleteMutant(highs, lows) == \E i \in 1..NUM_DAYS : highs[i] = None

Incomplete(highs, lows) ==
    \E i \in 1..NUM_DAYS : highs[i] = None \/ lows[i] = None

\* not xml_start_times or xml_start_times[0].firstChild is None
NoStartTime(xml_start_times) ==
    xml_start_times = <<>> \/ xml_start_times[1].kind = "none"

\* The result of parse_weather: the returned tuple, or the exception raised
\* together with the locals as they were when it was raised.
ParseWeather(dom) ==
    IF dom.kind # "document"
    THEN Raise("parseString", <<>>, <<>>, <<>>, NoDate)
    ELSE
    LET t == FillTemperatures(dom.temperature, 1, NoSlots, NoSlots)
        icons == Icons(dom.icon_link)
        day_one == Strptime(FirstTen(dom.start_valid_time[1].nodeValue))
    IN  IF t.raised THEN Raise("int", t.highs, t.lows, <<>>, NoDate)
        ELSE IF IconsRaise(dom.icon_link)
             THEN Raise("split", t.highs, t.lows, <<>>, NoDate)
        ELSE IF NoStartTime(dom.start_valid_time)
             THEN Raise("start-valid-time", t.highs, t.lows, icons, NoDate)
        ELSE IF dom.start_valid_time[1].kind = "element"
             THEN Raise("subscript", t.highs, t.lows, icons, NoDate)
        ELSE IF day_one = NoDate
             THEN Raise("strptime", t.highs, t.lows, icons, NoDate)
        ELSE IF Incomplete(t.highs, t.lows)
             THEN Raise("incomplete", t.highs, t.lows, icons, day_one)
        ELSE Return(t.highs, t.lows, icons, day_one)

----------------------------------------------------------------------------
(* render_svg *)

\* the placeholders render_svg replaces
IconOneMutant == <<"O","N","E">>

ICON_ONE == <<"I","C","O","N","_","O","N","E">>
ICON_TWO == <<"I","C","O","N","_","T","W","O">>
ICON_THREE == <<"I","C","O","N","_","T","H","R","E","E">>
ICON_FOUR == <<"I","C","O","N","_","F","O","U","R">>
HIGH_ONE == <<"H","I","G","H","_","O","N","E">>
HIGH_TWO == <<"H","I","G","H","_","T","W","O">>
HIGH_THREE == <<"H","I","G","H","_","T","H","R","E","E">>
HIGH_FOUR == <<"H","I","G","H","_","F","O","U","R">>
LOW_ONE == <<"L","O","W","_","O","N","E">>
LOW_TWO == <<"L","O","W","_","T","W","O">>
LOW_THREE == <<"L","O","W","_","T","H","R","E","E">>
LOW_FOUR == <<"L","O","W","_","F","O","U","R">>
DAY_THREE == <<"D","A","Y","_","T","H","R","E","E">>
DAY_FOUR == <<"D","A","Y","_","F","O","U","R">>

days_of_week == <<
    <<"M","o","n","d","a","y">>,
    <<"T","u","e","s","d","a","y">>,
    <<"W","e","d","n","e","s","d","a","y">>,
    <<"T","h","u","r","s","d","a","y">>,
    <<"F","r","i","d","a","y">>,
    <<"C","a","t","u","r","d","a","y">>,
    <<"S","u","n","d","a","y">>>>

\* str(n) for an int
RECURSIVE NaturalText(_)
NaturalText(n) ==
    IF n < 10 THEN <<DigitSeq[n + 1]>>
    ELSE NaturalText(n \div 10) \o <<DigitSeq[(n % 10) + 1]>>

Str(n) == IF n < 0 THEN <<"-">> \o NaturalText(0 - n) ELSE NaturalText(n)

\* positions where old occurs in s
Occurrences(s, old) ==
    {i \in 1..(Len(s) - Len(old) + 1) : SubSeq(s, i, i + Len(old) - 1) = old}

\* s.replace(old, new): every occurrence of old, left to right, without overlap
RECURSIVE ReplaceMutant(_, _, _)
ReplaceMutant(s, old, new) ==
    IF Occurrences(s, old) = {} THEN s
    ELSE LET m == Min(Occurrences(s, old))
         IN  SubSeq(s, 1, m - 1) \o new \o SubSeq(s, m + Len(old), Len(s))

RECURSIVE Replace(_, _, _)
Replace(s, old, new) ==
    IF Occurrences(s, old) = {} THEN s
    ELSE LET m == Min(Occurrences(s, old))
         IN  SubSeq(s, 1, m - 1) \o new
                 \o Replace(SubSeq(s, m + Len(old), Len(s)), old, new)

\* date.toordinal(): day 1 is 0001-01-01
DaysBeforeYear(y) ==
    (y - 1) * 365 + ((y - 1) \div 4) - ((y - 1) \div 100) + ((y - 1) \div 400)

RECURSIVE DaysBeforeMonth(_, _)
DaysBeforeMonth(y, m) ==
    IF m = 1 THEN 0 ELSE DaysBeforeMonth(y, m - 1) + DaysInMonth(y, m - 1)

Ordinal(date) ==
    DaysBeforeYear(date.year) + DaysBeforeMonth(date.year, date.month) + date.day

MaxOrdinal == Ordinal([year |-> MAXYEAR, month |-> 12, day |-> 31])

\* day_one + n * one_day raises OverflowError past 9999-12-31
Overflows(day_one, n) == Ordinal(day_one) + n > MaxOrdinal

\* (day_one + n * one_day).weekday(): Monday is 0
WeekdayMutant(day_one, n) == (Ordinal(day_one) + n) % 7

Weekday(day_one, n) == (Ordinal(day_one) + n + 6) % 7

\* days_of_week[(day_one + n * one_day).weekday()]
DayName(day_one, n) == days_of_week[Weekday(day_one, n) + 1]

\* the 14 replacements of lines 97-120, in the order of the code
Replacements(p) == <<
    <<ICON_ONE, p.icons[1]>>, <<ICON_TWO, p.icons[2]>>,
    <<ICON_THREE, p.icons[3]>>, <<ICON_FOUR, p.icons[4]>>,
    <<HIGH_ONE, Str(p.highs[1][1])>>, <<HIGH_TWO, Str(p.highs[2][1])>>,
    <<HIGH_THREE, Str(p.highs[3][1])>>, <<HIGH_FOUR, Str(p.highs[4][1])>>,
    <<LOW_ONE, Str(p.lows[1][1])>>, <<LOW_TWO, Str(p.lows[2][1])>>,
    <<LOW_THREE, Str(p.lows[3][1])>>, <<LOW_FOUR, Str(p.lows[4][1])>>,
    <<DAY_THREE, DayName(p.day_one, 2)>>, <<DAY_FOUR, DayName(p.day_one, 3)>> >>

CodeOrder == <<1, 2, 3, 4, 5, 6, 7, 8, 9, 10, 11, 12, 13, 14>>

\* the replacements reps applied to s in the order ord, from step k on
RECURSIVE ApplyFrom(_, _, _, _)
ApplyFrom(s, reps, ord, k) ==
    IF k > Len(ord) THEN s
    ELSE ApplyFrom(Replace(s, reps[ord[k]][1], reps[ord[k]][2]), reps, ord, k + 1)

\* render_svg on the template text, with its replacements applied in order ord:
\* the text returned, or the exception raised
RenderIn(tpl, p, ord) ==
    IF ~tpl.readable THEN [status |-> "raised", error |-> "read_text", text |-> <<>>]
    ELSE IF Overflows(p.day_one, 2) \/ Overflows(p.day_one, 3)
         THEN [status |-> "raised", error |-> "overflow", text |-> <<>>]
    ELSE [status |-> "returned", error |-> "",
          text |-> ApplyFrom(tpl.text, Replacements(p), ord, 1)]

RenderSvg(tpl, p) == RenderIn(tpl, p, CodeOrder)

NoOutput == [status |-> "none", error |-> "", text |-> <<>>]

----------------------------------------------------------------------------
(* Inputs: feeds *)

IntTexts(ns) == [i \in DOMAIN ns |-> TextChild(Str(ns[i]))]

GoodTemps == <<Temperature("maximum", IntTexts(<<70, 72, 68, 65>>)),
               Temperature("minimum", IntTexts(<<55, 58, 50, 48>>))>>
ColdTemps == <<Temperature("minimum", IntTexts(<<-12, -3, 0, 7, 9>>)),
               Temperature("maximum", IntTexts(<<-1, 0, 5, 10>>))>>
JunkTemps == <<Temperature("maximum", IntTexts(<<70, 72, 68, 65>>)),
               Temperature("minimum", <<TextChild(<<"5","5">>), TextChild(<<"n","/","a">>)>>)>>
PartTemps == <<Temperature("maximum", IntTexts(<<70, 72, 68, 65>>)),
               Temperature("minimum", IntTexts(<<55, 58, 50>>))>>

FewUrl == <<"h","t","t","p",":","/","/","w","/","f","e","w",".","p","n","g">>
BknUrl == <<"b","k","n","1","2",".","j","p","g">>
RainUrl == <<"x","/","R","A","I","N",".","p","n","g">>
IconUrl == <<"h","t","t","p","s",":","/","/","e","x","a","m","p","l","e",".","c","o","m","/","p","a","t","h","/","I","C","O","N","4","2",".","p","n","g">>
TwoDots == <<"a",".","b",".","p","n","g">>
DotDot == <<"b","a","d","/",".",".","/","t","o","k","e","n">>
BadChar == <<"i","/","a","<","b",".","p","n","g">>
Underline == <<"w","/","_",".","p","n","g">>

GoodIcons == <<TextChild(FewUrl), TextChild(BknUrl), NoChild, TextChild(RainUrl)>>
LineIcons == <<TextChild(FewUrl), TextChild(Underline), TextChild(RainUrl),
               TextChild(BknUrl)>>

TimeSuffix == <<"T","0","6",":","0","0",":","0","0","-","0","4",":","0","0">>
GoodStart == <<TextChild(<<"2","0","2","4","-","0","6","-","0","3">> \o TimeSuffix)>>

\* temperature elements: a maximum or minimum with up to MaxValues value
\* children, at most one of the first NUM_DAYS without text, or an element of
\* another type; the value at position i of element k reads Reading(k, i)
ElementShapes ==
    {sh \in [type : {"maximum", "minimum"}, len : 0..MaxValues, hole : 0..NUM_DAYS] :
        sh.hole <= sh.len}
    \cup {[type |-> "apparent", len |-> NUM_DAYS, hole |-> 0]}

Reading(k, i) == 10 * k + i - 12

TemperatureOf(sh, k) ==
    Temperature(sh.type,
        [i \in 1..sh.len |-> IF i = sh.hole THEN NoChild
                             ELSE TextChild(Str(Reading(k, i)))])

TempFeeds ==
    {Document([k \in DOMAIN f |-> TemperatureOf(f[k], k)], GoodIcons, GoodStart) :
        f \in UNION {[1..n -> ElementShapes] : n \in 0..MaxTemps}}

\* icon-link elements: no text, a child element, or one of these texts
IconNodes == {NoChild, ElementChild, TextChild(IconUrl), TextChild(TwoDots),
              TextChild(DotDot), TextChild(BadChar)}

IconFeeds ==
    {Document(GoodTemps, is, GoodStart) :
        is \in UNION {[1..n -> IconNodes] : n \in 0..MaxIcons}}

\* start-valid-time texts
SampleYears == {<<"2","0","2","4">>, <<"0","0","0","0">>, <<"9","9","9","9">>, <<"2","4">>}
SampleMonths == {<<"0","3">>, <<"3">>, <<"0","2">>, <<"1","2">>, <<"1","3">>, <<"0","0">>}
SampleDays == {<<"1","0">>, <<"5">>, <<" ","5">>, <<"3","0">>, <<"3","2">>, <<"0">>, <<"1","x">>}
SampleSuffixes == {<<>>, <<"T">>, TimeSuffix}

StartTexts ==
    {y \o <<"-">> \o m \o <<"-">> \o d \o x :
        y \in SampleYears, m \in SampleMonths, d \in SampleDays, x \in SampleSuffixes}
    \cup {<<"2","0","2","4","/","0","6","/","0","3">>, <<"2","0","2","4","-","0","6">>, <<"s","o","o","n">>}

StartLists ==
    {<<>>, <<NoChild>>, <<ElementChild>>, <<NoChild, GoodStart[1]>>}
    \cup {<<TextChild(t)>> : t \in StartTexts}
    \cup {<<TextChild(t), NoChild>> : t \in StartTexts}

StartFeeds ==
    {Document(ts, is, ss) : ts \in {GoodTemps, PartTemps},
                            is \in {GoodIcons}, ss \in StartLists}

\* feeds that differ in the start date and in the icons
RenderDates == {<<"2","0","2","4","-","0","6","-","0","3">>, <<"2","0","2","4","-","0","6","-","0","4">>, <<"2","0","2","4","-","0","6","-","0","5">>, <<"2","0","2","4","-","0","6","-","0","6">>, <<"2","0","2","4","-","0","6","-","0","7">>, <<"2","0","2","4","-","0","6","-","0","8">>, <<"2","0","2","4","-","0","6","-","0","9">>, <<"2","0","2","4","-","0","2","-","2","7">>, <<"9","9","9","9","-","1","2","-","3","0">>}

RenderFeeds ==
    {Document(ti[1], ti[2], <<TextChild(d \o TimeSuffix)>>) :
        ti \in {<<GoodTemps, GoodIcons>>, <<ColdTemps, GoodIcons>>,
                <<GoodTemps, LineIcons>>},
        d \in RenderDates}

OrderFeeds ==
    {Document(GoodTemps, is, GoodStart) : is \in {GoodIcons, LineIcons}}

MainFeeds ==
    RenderFeeds
    \cup {Unparsable,
          Document(JunkTemps, GoodIcons, GoodStart),
          Document(PartTemps, GoodIcons, GoodStart),
          Document(GoodTemps, <<ElementChild>>, GoodStart),
          Document(GoodTemps, GoodIcons, <<>>)}

----------------------------------------------------------------------------
(* Inputs: templates *)

RECURSIVE Concat(_)
Concat(ps) == IF ps = <<>> THEN <<>> ELSE Head(ps) \o Concat(Tail(ps))

\* a template file: unreadable, or a text; pieces records the fragments the
\* text was put together from
Unreadable == [readable |-> FALSE, text |-> <<>>, pieces |-> <<>>]
TemplateOf(ps) == [readable |-> TRUE, text |-> Concat(ps), pieces |-> ps]

ICON == <<"I","C","O","N">>
ONE == <<"O","N","E">>
DAY_ONE == <<"D","A","Y","_","O","N","E">>
HIGH_LOW == <<"H","I","G","H","_","T","W","O","/","L","O","W","_","F","O","U","R">>
FullTemplate == <<"<","s","v","g",">","I","C","O","N","_","O","N","E"," ","H","I","G","H","_","O","N","E"," ","L","O","W","_","O","N","E"," ","D","A","Y","_","O","N","E","|","I","C","O","N","_","T","W","O"," ","H","I","G","H","_","T","W","O"," ","L","O","W","_","T","W","O"," ","D","A","Y","_","T","W","O","|","I","C","O","N","_","T","H","R","E","E"," ","H","I","G","H","_","T","H","R","E","E"," ","L","O","W","_","T","H","R","E","E"," ","D","A","Y","_","T","H","R","E","E","|","I","C","O","N","_","F","O","U","R"," ","H","I","G","H","_","F","O","U","R"," ","L","O","W","_","F","O","U","R"," ","D","A","Y","_","F","O","U","R","<","/","s","v","g",">">>

Pieces == {ICON, ICON_TWO, ONE, DAY_THREE, DAY_FOUR, DAY_ONE, HIGH_LOW}
OrderPieces == {ICON, ICON_TWO, ONE, HIGH_ONE}

TemplatesOf(P) == {TemplateOf(ps) : ps \in UNION {[1..n -> P] : n \in 0..MaxPieces}}

MainTemplates ==
    {Unreadable, TemplateOf(<<FullTemplate>>), TemplateOf(<<ICON, ICON_TWO, ONE>>)}

\* the orders of the 14 replacements that are tried: the order of the code,
\* and the order of the code with two of the replacements exchanged
Exchange(a, b) ==
    [i \in DOMAIN CodeOrder |-> IF i = a THEN CodeOrder[b]
                                ELSE IF i = b THEN CodeOrder[a] ELSE CodeOrder[i]]

Orders == {Exchange(a, b) : a \in DOMAIN CodeOrder, b \in DOMAIN CodeOrder}

----------------------------------------------------------------------------
(* main(): one action per stage *)

NoFile == [written |-> FALSE, text |-> <<>>]

\* line 126: fetch_weather_xml returns the response
Fetch ==
    /\ pc = "start"
    /\ \E doc \in MainFeeds : weather_xml' = doc
    /\ pc' = "fetched"
    /\ calls' = Append(calls, "fetch")
    /\ UNCHANGED <<parsed, template, order, output, output_svg>>

\* line 126: urlopen or read raises (timeout, transport failure, HTTP error)
FetchFails ==
    /\ pc = "start"
    /\ pc' = "failed"
    /\ calls' = Append(calls, "fetch")
    /\ UNCHANGED <<weather_xml, parsed, template, order, output, output_svg>>

\* line 127: parse_weather returns the tuple or raises
ParseMutant ==
    /\ pc = "fetched"
    /\ parsed' = ParseWeather(weather_xml)
    /\ pc' = IF parsed'.status = "returned" THEN "parsed" ELSE "start"
    /\ calls' = Append(calls, "parse")
    /\ UNCHANGED <<weather_xml, template, order, output, output_svg>>

Parse ==
    /\ pc = "fetched"
    /\ parsed' = ParseWeather(weather_xml)
    /\ pc' = IF parsed'.status = "returned" THEN "parsed" ELSE "failed"
    /\ calls' = Append(calls, "parse")
    /\ UNCHANGED <<weather_xml, template, order, output, output_svg>>

\* line 128: render_svg returns the text or raises; ord is CodeOrder in the code
RenderIn_(ord) ==
    /\ pc = "parsed"
    /\ order' = ord
    /\ output' = RenderIn(template, parsed, ord)
    /\ pc' = IF output'.status = "returned" THEN "rendered" ELSE "failed"
    /\ calls' = Append(calls, "render")
    /\ UNCHANGED <<weather_xml, parsed, template, output_svg>>

Render == RenderIn_(CodeOrder)

\* render_svg with two of its replacements exchanged
RenderExchanged == \E ord \in Orders : RenderIn_(ord)

\* line 129: OUTPUT_SVG.write_text(output)
Write ==
    /\ pc = "rendered"
    /\ output_svg' = [written |-> TRUE, text |-> output.text]
    /\ pc' = "written"
    /\ calls' = Append(calls, "write")
    /\ UNCHANGED <<weather_xml, parsed, template, order, output>>

\* line 129: the file cannot be opened for writing
WriteFails ==
    /\ pc = "rendered"
    /\ pc' = "failed"
    /\ calls' = Append(calls, "write")
    /\ UNCHANGED <<weather_xml, parsed, template, order, output, output_svg>>

----------------------------------------------------------------------------
(* Specifications *)

\* a run of main()
Init ==
    /\ pc = "start"
    /\ weather_xml = NoDoc
    /\ parsed = NoParse
    /\ template \in MainTemplates
    /\ order = CodeOrder
    /\ output = NoOutput
    /\ output_svg = NoFile
    /\ calls = <<>>

Next == Fetch \/ FetchFails \/ Parse \/ Render \/ Write \/ WriteFails

Spec == Init /\ [][Next]_vars

\* main() after fetch_weather_xml has returned the feed doc, with template tpl
Fetched(feeds, templates) ==
    /\ pc = "fetched"
    /\ weather_xml \in feeds
    /\ parsed = NoParse
    /\ template \in templates
    /\ order = CodeOrder
    /\ output = NoOutput
    /\ output_svg = NoFile
    /\ calls = <<"fetch">>

\* parse_weather on feeds that differ in their temperature elements
InitTemps == Fetched(TempFeeds, {TemplateOf(<<DAY_ONE>>)})
SpecTemps == InitTemps /\ [][Parse]_vars

\* parse_weather on feeds that differ in their icon-link elements
InitIcons == Fetched(IconFeeds, {TemplateOf(<<DAY_ONE>>)})
SpecIcons == InitIcons /\ [][Parse]_vars

\* parse_weather on feeds that differ in their start-valid-time elements
InitStart == Fetched(StartFeeds, {TemplateOf(<<DAY_ONE>>)})
SpecStart == InitStart /\ [][Parse]_vars

\* parse_weather and render_svg on generated templates
InitRender == Fetched(RenderFeeds, TemplatesOf(Pieces))
NextRender == Parse \/ Render
SpecRender == InitRender /\ [][NextRender]_vars

\* parse_weather, and render_svg with its replacements in another order
InitOrder == Fetched(OrderFeeds, TemplatesOf(OrderPieces))
NextOrder == Parse \/ RenderExchanged
SpecOrder == InitOrder /\ [][NextOrder]_vars

----------------------------------------------------------------------------
(* Properties: parse_weather, highs and lows *)

Parsed == parsed.status # "none"

\* the temperature loop ran to its end
TemperaturesRead == Parsed /\ parsed.error \notin {"parseString", "int"}

\* the elements of the given type that have a value with text at position i
WithText(items, type, i) ==
    {k \in DOMAIN items :
        /\ items[k].type = type
        /\ i <= Len(items[k].values)
        /\ items[k].values[i].kind = "text"}

\* C1: parse_weather never returns a partial forecast: when some high or low
\* slot has no maximum/minimum element giving it a value, parse_weather raises
\* and returns no tuple, and every tuple it returns has all 4 highs and all 4
\* lows set.
C1_NoPartialForecast ==
    LET items == weather_xml.temperature
        unset == \E i \in 1..NUM_DAYS :
                    WithText(items, "maximum", i) = {} \/ WithText(items, "minimum", i) = {}
    IN  /\ (TemperaturesRead /\ unset) => parsed.status = "raised"
        /\ parsed.status = "returned" =>
              /\ ~unset
              /\ Len(parsed.highs) = NUM_DAYS /\ Len(parsed.lows) = NUM_DAYS
              /\ \A i \in 1..NUM_DAYS : parsed.highs[i] # None /\ parsed.lows[i] # None

C1_Witness ==
    /\ parsed.status = "raised" /\ parsed.error = "incomplete"
    /\ \A i \in 1..NUM_DAYS : parsed.highs[i] # None
    /\ parsed.lows[NUM_DAYS] = None /\ parsed.lows[1] # None

\* the slot at position i after the loop, as the claim states it
LastWins(items, type, i) ==
    IF WithText(items, type, i) = {} THEN None
    ELSE Some(Reading(Max(WithText(items, type, i)), i))

\* C9: after the temperature elements are processed in document order,
\* highs[i] is the value at position i of the last maximum element that has a
\* value with text there, and is unset only if there is none; an absent or
\* missing value of a later element clears nothing; positions past NUM_DAYS
\* are ignored; lows likewise with minimum elements, and neither type touches
\* the other's list.
C9_LastWriteWins ==
    TemperaturesRead =>
        /\ DOMAIN parsed.highs = 1..NUM_DAYS /\ DOMAIN parsed.lows = 1..NUM_DAYS
        /\ \A i \in 1..NUM_DAYS :
              /\ parsed.highs[i] = LastWins(weather_xml.temperature, "maximum", i)
              /\ parsed.lows[i] = LastWins(weather_xml.temperature, "minimum", i)

C9_Witness ==
    /\ TemperaturesRead
    /\ Len(weather_xml.temperature) = 2
    /\ weather_xml.temperature[1].type = "maximum"
    /\ weather_xml.temperature[2].type = "maximum"
    /\ Len(weather_xml.temperature[2].values) > NUM_DAYS
    /\ weather_xml.temperature[2].values[2].kind = "none"
    /\ parsed.highs[1] = Some(Reading(2, 1))
    /\ parsed.highs[2] = Some(Reading(1, 2))

----------------------------------------------------------------------------
(* Properties: parse_weather, icons *)

\* the icon loop ran to its end
IconsRead == Parsed /\ parsed.error \notin {"parseString", "int", "split"}

AllowList == Range(LowerSeq) \cup Range(DigitSeq) \cup {"_", "-"}

\* a text matches ^[a-z0-9_-]+$
Allowed(tok) == tok # <<>> /\ \A j \in DOMAIN tok : tok[j] \in AllowList

\* the icon-link entries that exist with text, among the first NUM_DAYS
WithIconText(dom) ==
    {i \in 1..NUM_DAYS : i <= Len(dom.icon_link) /\ dom.icon_link[i].kind = "text"}

\* C2: whenever parse_weather returns, icons has exactly NUM_DAYS entries and
\* each matches ^[a-z0-9_-]+$, whatever the icon-link texts are and however
\* many icon-link elements there are; an icon text never makes the parse fail.
C2_IconsSanitized ==
    /\ parsed.status = "returned" =>
          /\ DOMAIN parsed.icons = 1..NUM_DAYS
          /\ \A i \in 1..NUM_DAYS : Allowed(parsed.icons[i])
    /\ (Parsed /\ \A i \in 1..NUM_DAYS :
                     i <= Len(weather_xml.icon_link) =>
                         weather_xml.icon_link[i].kind # "element")
          => parsed.status = "returned"

C2_Witness ==
    /\ parsed.status = "returned"
    /\ Len(weather_xml.icon_link) > NUM_DAYS
    /\ weather_xml.icon_link[1] = TextChild(BadChar)
    /\ parsed.icons[1] = NA
    /\ weather_xml.icon_link[2] = TextChild(IconUrl)
    /\ parsed.icons[2] # NA

RECURSIVE TakeUntil(_, _)
TakeUntil(s, c) ==
    IF s = <<>> \/ Head(s) = c THEN <<>> ELSE <<Head(s)>> \o TakeUntil(Tail(s), c)

RECURSIVE DropThrough(_, _)
DropThrough(s, c) ==
    IF c \notin Range(s) THEN s ELSE DropThrough(Tail(s), c)

RECURSIVE DropTrailingDigits(_)
DropTrailingDigits(s) ==
    IF s = <<>> \/ s[Len(s)] \notin Range(DigitSeq) THEN s
    ELSE DropTrailingDigits(SubSeq(s, 1, Len(s) - 1))

\* the final path segment of a text
FinalSegment(text) == DropThrough(text, "/")

\* a segment without its extension, the extension being the text after the
\* last "."
BeforeLastDot(seg) ==
    IF "." \notin Range(seg) THEN seg
    ELSE SubSeq(seg, 1, Len(seg) - Len(DropThrough(seg, ".")) - 1)

\* the candidate token as the claim derives it
CandidateLastDot(text) == Lower(DropTrailingDigits(BeforeLastDot(FinalSegment(text))))

\* the candidate token with the text from the first "." on removed
CandidateFirstDot(text) == Lower(DropTrailingDigits(TakeUntil(FinalSegment(text), ".")))

TokenOf(candidate) == IF Allowed(candidate) THEN candidate ELSE NA

\* C3 as stated: the token of a day whose icon-link has text is the final path
\* segment without its extension (the text after the last "."), without
\* trailing digits, lowercased, when that matches [a-z0-9_-]+, and "na"
\* otherwise.
C3_Original ==
    IconsRead =>
        \A i \in WithIconText(weather_xml) :
            parsed.icons[i] = TokenOf(CandidateLastDot(weather_xml.icon_link[i].nodeValue))

\* C3 amended: the token of a day whose icon-link has text is the final path
\* segment cut at its first ".", without trailing digits, lowercased, when
\* that matches [a-z0-9_-]+, and "na" otherwise; ".../ICON42.png" gives
\* "icon" and "a.b.png" gives "a".
C3_TokenDerivation ==
    IconsRead =>
        \A i \in WithIconText(weather_xml) :
            LET text == weather_xml.icon_link[i].nodeValue
            IN  /\ parsed.icons[i] = TokenOf(CandidateFirstDot(text))
                /\ text = IconUrl => parsed.icons[i] = <<"i", "c", "o", "n">>
                /\ text = TwoDots => parsed.icons[i] = <<"a">>

C3_Witness ==
    /\ IconsRead
    /\ \E i \in WithIconText(weather_xml) :
          weather_xml.icon_link[i] = TextChild(TwoDots) /\ parsed.icons[i] = <<"a">>
    /\ \E i \in WithIconText(weather_xml) :
          weather_xml.icon_link[i] = TextChild(IconUrl)

\* a normalized candidate with a character outside the allow-list gives "na"
OutsideAllowListGivesNA ==
    \A i \in WithIconText(weather_xml) :
        LET c == CandidateFirstDot(weather_xml.icon_link[i].nodeValue)
        IN  (\E j \in DOMAIN c : c[j] \notin AllowList) => parsed.icons[i] = NA

\* C4 as stated: an icon-link text with characters outside the allow-list
\* after normalization yields "na", and the text "bad/../token" yields "na".
C4_Original ==
    IconsRead =>
        /\ OutsideAllowListGivesNA
        /\ \A i \in WithIconText(weather_xml) :
              weather_xml.icon_link[i].nodeValue = DotDot => parsed.icons[i] = NA

\* C4 amended: an icon-link text whose normalized candidate has characters
\* outside the allow-list yields "na"; the text "bad/../token" yields "token",
\* its final path segment.
C4_FallbackToken ==
    IconsRead =>
        /\ OutsideAllowListGivesNA
        /\ \A i \in WithIconText(weather_xml) :
              weather_xml.icon_link[i].nodeValue = DotDot =>
                  parsed.icons[i] = <<"t", "o", "k", "e", "n">>

C4_Witness ==
    /\ IconsRead
    /\ \E i \in WithIconText(weather_xml) :
          weather_xml.icon_link[i] = TextChild(BadChar) /\ parsed.icons[i] = NA
    /\ \E i \in WithIconText(weather_xml) :
          weather_xml.icon_link[i] = TextChild(DotDot) /\ parsed.icons[i] # NA

----------------------------------------------------------------------------
(* Properties: parse_weather, start-valid-time *)

TwoDigits(a, b) == 10 * DigitValue(a) + DigitValue(b)

\* the shape YYYY-MM-DD
IsoShape(s) ==
    /\ Len(s) = 10
    /\ \A i \in {1, 2, 3, 4, 6, 7, 9, 10} : s[i] \in Range(DigitSeq)
    /\ s[5] = "-" /\ s[8] = "-"

IsoDate(s) ==
    [year |-> 100 * TwoDigits(s[1], s[2]) + TwoDigits(s[3], s[4]),
     month |-> TwoDigits(s[6], s[7]), day |-> TwoDigits(s[9], s[10])]

\* a date of the calendar
CalendarDate(d) ==
    /\ d.year \in 1..9999 /\ d.month \in 1..12
    /\ d.day \in 1..DaysInMonth(d.year, d.month)

\* the texts of a number n: without padding, padded with "0", and (for a day)
\* padded with a blank
NumberTexts(n, blank) ==
    {Str(n)} \cup (IF n < 10 THEN {<<"0">> \o Str(n)} ELSE {})
             \cup (IF n < 10 /\ blank THEN {<<" ">> \o Str(n)} ELSE {})

\* the dates s denotes as 4-digit year, "-", month of 1 or 2 digits, "-", day
\* of 1 or 2 digits
LooseDates(s) ==
    {d \in [year : IF Len(s) >= 4 /\ \A i \in 1..4 : s[i] \in Range(DigitSeq)
                   THEN {100 * TwoDigits(s[1], s[2]) + TwoDigits(s[3], s[4])} ELSE {},
            month : 1..12, day : 1..31] :
        \E m \in NumberTexts(d.month, FALSE), dd \in NumberTexts(d.day, TRUE) :
            s = SubSeq(s, 1, 4) \o <<"-">> \o m \o <<"-">> \o dd}

StartText == weather_xml.start_valid_time[1].nodeValue
StartPrefix == SubSeq(StartText, 1, IF Len(StartText) < 10 THEN Len(StartText) ELSE 10)

HasStartText ==
    weather_xml.start_valid_time # <<>> /\ weather_xml.start_valid_time[1].kind = "text"

\* the parts of C8 that hold as stated: without a start-valid-time element, or
\* with a first one without text, parse_weather raises "did not contain
\* start-valid-time" whatever the temperatures and icons are; a text that
\* starts with a calendar date YYYY-MM-DD is accepted, and the start date is
\* the date its first 10 characters denote
C8_Common ==
    /\ (weather_xml.start_valid_time = <<>>
          \/ weather_xml.start_valid_time[1].kind = "none")
          => (parsed.status = "raised" /\ parsed.error = "start-valid-time")
    /\ (HasStartText /\ IsoShape(StartPrefix) /\ CalendarDate(IsoDate(StartPrefix))
          /\ weather_xml.temperature = GoodTemps)
          => (parsed.status = "returned" /\ parsed.day_one = IsoDate(StartPrefix))
    /\ (parsed.status = "returned" /\ IsoShape(StartPrefix))
          => parsed.day_one = IsoDate(StartPrefix)

\* C8 as stated: ... and a text whose first 10 characters do not have the
\* shape YYYY-MM-DD makes the parse fail.
C8_Original ==
    Parsed =>
        /\ C8_Common
        /\ (HasStartText /\ ~IsoShape(StartPrefix)) => parsed.status = "raised"

\* C8 amended: a missing start-valid-time element, or a first one without
\* text, makes parse_weather raise "did not contain start-valid-time"; a text
\* is read from its first 10 characters, which must be a 4-digit year, "-", a
\* month of 1 or 2 digits, "-", a day of 1 or 2 digits (a blank may pad the
\* day) and a date of the calendar, else the parse fails; padding with zeros
\* is not required, so that "2024-3-5" is accepted as 2024-03-05.
C8_StartValidTime ==
    Parsed =>
        /\ C8_Common
        /\ (HasStartText /\ \A d \in LooseDates(StartPrefix) : ~CalendarDate(d))
              => parsed.status = "raised"
        /\ parsed.status = "returned" => parsed.day_one \in LooseDates(StartPrefix)

C8_Witness ==
    /\ parsed.status = "returned"
    /\ StartText = <<"2","0","2","4","-","3","-","5">>
    /\ parsed.day_one = [year |-> 2024, month |-> 3, day |-> 5]

----------------------------------------------------------------------------
(* Properties: main *)

StageOrder == <<"fetch", "parse", "render", "write">>

\* C5: the stages run in the order fetch, parse, render, write, each at most
\* once; a stage that fails ends the run, no later stage is started and the
\* failed stage is not started again; the output file is written only when
\* fetch, parse and render have all succeeded.
C5_ErrorsAreTerminal ==
    /\ Len(calls) <= Len(StageOrder)
    /\ calls = SubSeq(StageOrder, 1, Len(calls))
    /\ (pc = "failed" /\ weather_xml = NoDoc) => calls = <<"fetch">>
    /\ parsed.status = "raised" => (pc = "failed" /\ calls = <<"fetch", "parse">>)
    /\ output.status = "raised" => (pc = "failed" /\ calls = <<"fetch", "parse", "render">>)
    /\ output_svg.written =>
          /\ weather_xml.kind = "document"
          /\ parsed.status = "returned"
          /\ output.status = "returned"
          /\ output_svg.text = output.text
          /\ calls = StageOrder
    /\ ~output_svg.written => output_svg = NoFile

C5_Witness ==
    /\ pc = "failed"
    /\ output.status = "raised" /\ output.error = "read_text"
    /\ calls = <<"fetch", "parse", "render">>
    /\ output_svg = NoFile

----------------------------------------------------------------------------
(* Properties: render_svg *)

ClaimedDays == <<
    <<"M","o","n","d","a","y">>,
    <<"T","u","e","s","d","a","y">>,
    <<"W","e","d","n","e","s","d","a","y">>,
    <<"T","h","u","r","s","d","a","y">>,
    <<"F","r","i","d","a","y">>,
    <<"C","a","t","u","r","d","a","y">>,
    <<"S","u","n","d","a","y">>>>

Saturday == <<"S","a","t","u","r","d","a","y">>

\* weekdays of the calendar, Monday = 0: 2024-06-03 is a Monday and
\* 2024-02-27 a Tuesday
CalendarWeekday(d) ==
    IF d.year = 2024 /\ d.month = 6 THEN (d.day - 3) % 7
    ELSE IF d = [year |-> 2024, month |-> 2, day |-> 27] THEN 1
    ELSE 7

\* what a fragment of the template becomes
Rendered(piece, p) ==
    IF piece = DAY_THREE THEN ClaimedDays[((CalendarWeekday(p.day_one) + 2) % 7) + 1]
    ELSE IF piece = DAY_FOUR THEN ClaimedDays[((CalendarWeekday(p.day_one) + 3) % 7) + 1]
    ELSE IF piece = ICON_TWO THEN p.icons[2]
    ELSE IF piece = HIGH_LOW THEN Str(p.highs[2][1]) \o <<"/">> \o Str(p.lows[4][1])
    ELSE piece

Substituted == {ICON_ONE, ICON_TWO, ICON_THREE, ICON_FOUR,
                HIGH_ONE, HIGH_TWO, HIGH_THREE, HIGH_FOUR,
                LOW_ONE, LOW_TWO, LOW_THREE, LOW_FOUR, DAY_THREE, DAY_FOUR}

\* no icon token is the single character "_"
NoLineToken == \A i \in DOMAIN parsed.icons : parsed.icons[i] # <<"_">>

NoneLeft == \A ph \in Substituted : Occurrences(output.text, ph) = {}

\* C10 as stated: the text render_svg returns contains none of the 14
\* substituted placeholders, whatever the template and the validated tuple.
C10_Original == output.status = "returned" => NoneLeft

\* C10 amended: when no icon token is exactly "_", the text render_svg
\* returns contains none of the 14 substituted placeholders, and DAY_ONE
\* stays wherever the template has it.
C10_NoPlaceholderLeft ==
    (output.status = "returned" /\ NoLineToken) =>
        /\ NoneLeft
        /\ Cardinality(Occurrences(output.text, DAY_ONE))
              = Cardinality(Occurrences(template.text, DAY_ONE))

C10_Witness ==
    /\ output.status = "returned" /\ NoLineToken
    /\ template.pieces = <<DAY_THREE, DAY_ONE, DAY_THREE>>
    /\ Occurrences(output.text, DAY_ONE) # {}

\* C7 as stated: the 14 replacements applied in another order give the text
\* that the order of the code gives, whatever the template and the validated
\* tuple.
C7_Original ==
    output.status = "returned" => output.text = RenderSvg(template, parsed).text

\* C7 amended: when no icon token is exactly "_", the 14 replacements applied
\* in another order give the text that the order of the code gives.
C7_OrderIndependent ==
    (output.status = "returned" /\ NoLineToken) =>
        output.text = RenderSvg(template, parsed).text

C7_Witness ==
    /\ output.status = "returned" /\ NoLineToken
    /\ order = Exchange(2, 5)
    /\ template.pieces = <<HIGH_ONE, ICON_TWO, ICON>>
    /\ output.text = <<"7", "0", "b", "k", "n">> \o ICON

====
